---- MODULE Spec2Model ----
(***************************************************************************)
(* A model of the AI interview trainer: the retry wrapper around the       *)
(* generative-AI calls (InterviewScreen.tsx, generateContentWithRetry),    *)
(* the interview screen's conversation state machine, the App's step       *)
(* navigation, and the feedback screen's report persistence.               *)
(***************************************************************************)
EXTENDS Integers, Sequences, FiniteSets, Bags, TLC

VARIABLES
    \* ---- generateContentWithRetry (one invocation at a time) ----
    attempt,        \* the local `attempt` counter
    retryPc,        \* "idle" | "calling" | "waiting" | "returned" | "threw"
    aiCalls,        \* number of ai.models.generateContent calls issued
    outcomes,       \* how each settled call ended: "ok" or the error text
    waits,          \* the delays passed to setTimeout, in order
    thrown,         \* the error the invocation threw, or NoError
    \* ---- App (App.tsx) ----
    interviewState, selectedLanguage, selectedRole, selectedLevel,
    finalTranscript, feedback,
    feedbackResponse,     \* how the feedback request settled: "none" | "report" | "fail"
    \* ---- InterviewScreen: React state ----
    mounted,              \* an InterviewScreen instance is rendered
    mountEffectsDue,      \* its mount effects have not run yet
    status, turns, isGeneratingFeedback, finalAnswer,
    submitEffectDue,      \* the finalAnswer effect (lines 297-301) is due
    \* ---- InterviewScreen: refs and closures ----
    conversationHistoryRef,
    recognitionRef,       \* TRUE when a SpeechRecognition object is held
    transcript,           \* the `transcript` local of the setup effect
    streamRef,            \* Null or the stream held
    analyserRef,          \* TRUE when analyserRef/audioContextRef are set
    animationFrameIdRef,  \* "null" | "scheduled" | "stale"
    \* ---- the browser and the network ----
    speechSupported,      \* window.SpeechRecognition exists
    recState,             \* "inactive" | "active" | "stopping" | "ending"
    liveStreams,          \* microphone streams whose tracks are not stopped
    frames,               \* visualize callbacks scheduled by requestAnimationFrame
    tasks,                \* bag of pending promises and playbacks
    clock,                \* the last value Date.now() returned
    chatOutcome,          \* how the last chat request settled: "none" | "next" | "last" | "fail"
    \* ---- FeedbackScreen and localStorage ----
    isSaved,              \* FeedbackScreen's isSaved state
    storage               \* the item 'ai-interview-reports' of localStorage

retryVars == <<attempt, retryPc, aiCalls, outcomes, waits, thrown>>

appVars ==
    <<interviewState, selectedLanguage, selectedRole, selectedLevel,
      finalTranscript, feedback, feedbackResponse>>

stateVars ==
    <<mounted, mountEffectsDue, status, turns, isGeneratingFeedback,
      finalAnswer, submitEffectDue>>

refVars ==
    <<conversationHistoryRef, recognitionRef, transcript, streamRef,
      analyserRef, animationFrameIdRef>>

micVars == <<streamRef, analyserRef, animationFrameIdRef, liveStreams, frames>>

envVars ==
    <<speechSupported, recState, liveStreams, frames, tasks, clock, chatOutcome>>

screenVars == <<stateVars, refVars, envVars>>

saveVars == <<isSaved, storage>>

vars == <<retryVars, appVars, screenVars, saveVars>>

(***************************************************************************)
(* generateContentWithRetry                                                *)
(***************************************************************************)

MAX_RETRIES == 3
INITIAL_DELAY_MS == 1000

\* The observation logs (aiCalls, outcomes, waits) stop growing at LogCap
\* entries; the code itself never gets there.
LogCap == 5

NoError == <<>>

\* how one call settled
Ok == [ok |-> TRUE, text |-> NoError]
Failed(e) == [ok |-> FALSE, text |-> e]

\* String(error), as a sequence of characters.
Txt429 == <<"4", "2", "9">>
TxtResourceExhausted ==
    <<"R", "E", "S", "O", "U", "R", "C", "E", "_",
      "E", "X", "H", "A", "U", "S", "T", "E", "D">>

ErrorTexts ==
    { <<"E", ":", "4", "2", "9">>,                 \* a 429 status
      <<"1", "4", "2", "9", "0">>,                 \* digits 429 inside a number
      <<"[">> \o TxtResourceExhausted \o <<"]">>,  \* the gRPC status name
      TxtResourceExhausted,                        \* exactly the status name
      <<"5", "0", "0">>,                           \* a server error
      <<"4", "2", " ", "9">>,                      \* 4 2 9 but not contiguous
      <<"r", "e", "s", "o", "u", "r", "c", "e">> } \* lower case, truncated

\* String.prototype.includes
Includes(text, needle) ==
    \E i \in 1..(Len(text) - Len(needle) + 1) :
        SubSeq(text, i, i + Len(needle) - 1) = needle

\* line 41: the rate-limit test on the error text
IsRateLimitErrorAlways(errorString) == TRUE
IsRateLimitError(errorString) ==
    Includes(errorString, Txt429) \/ Includes(errorString, TxtResourceExhausted)

RECURSIVE Pow2(_)
Pow2(n) == IF n <= 0 THEN 1 ELSE 2 * Pow2(n - 1)

\* line 48: INITIAL_DELAY_MS * Math.pow(2, attempt - 1)
BackoffDelayOffByOne(a) == INITIAL_DELAY_MS * Pow2(a)
BackoffDelay(a) == INITIAL_DELAY_MS * Pow2(a - 1)

\* line 42: attempt++
NextAttemptStuck(a) == a
NextAttempt(a) == a + 1

Logged(log, x) == IF Len(log) < LogCap THEN Append(log, x) ELSE log
Counted(n) == IF n < LogCap THEN n + 1 ELSE n

\* line 34: the loop test, entered at the start and after each backoff wait;
\* line 36 issues the call, line 59 is the fallback throw after the loop.
LoopHead(a) ==
    IF a < MAX_RETRIES
    THEN /\ retryPc' = "calling"
         /\ aiCalls' = Counted(aiCalls)
         /\ thrown' = NoError
    ELSE /\ retryPc' = "threw"
         /\ aiCalls' = aiCalls
         /\ thrown' = <<"f", "a", "i", "l", "e", "d">>

RetryVarsInit ==
    /\ attempt = 0
    /\ retryPc = "idle"
    /\ aiCalls = 0
    /\ outcomes = <<>>
    /\ waits = <<>>
    /\ thrown = NoError

\* lines 32-36: a caller invokes the wrapper; the first call is issued
generateContentWithRetry ==
    /\ retryPc = "idle"
    /\ attempt' = 0
    /\ LoopHead(0)
    /\ UNCHANGED <<outcomes, waits, appVars, screenVars, saveVars>>

\* lines 36-37: the awaited call resolves and the response is returned
CallResolves ==
    /\ retryPc = "calling"
    /\ retryPc' = "returned"
    /\ outcomes' = Logged(outcomes, Ok)
    /\ UNCHANGED <<attempt, aiCalls, waits, thrown, appVars, screenVars, saveVars>>

\* lines 38-55: the awaited call rejects with an error whose text is e
CallRejects(e) ==
    /\ retryPc = "calling"
    /\ outcomes' = Logged(outcomes, Failed(e))
    /\ IF IsRateLimitError(e)
       THEN /\ attempt' = NextAttempt(attempt)
            /\ IF attempt' >= MAX_RETRIES
               THEN /\ retryPc' = "threw"
                    /\ thrown' = e
                    /\ waits' = waits
               ELSE /\ retryPc' = "waiting"
                    /\ thrown' = thrown
                    /\ waits' = Logged(waits, BackoffDelay(attempt'))
       ELSE /\ retryPc' = "threw"
            /\ thrown' = e
            /\ UNCHANGED <<attempt, waits>>
    /\ UNCHANGED <<aiCalls, appVars, screenVars, saveVars>>

CallSettles == CallResolves \/ \E e \in ErrorTexts : CallRejects(e)

\* line 50: the backoff timer fires and the loop goes round
TimerFires ==
    /\ retryPc = "waiting"
    /\ LoopHead(attempt)
    /\ UNCHANGED <<attempt, outcomes, waits, appVars, screenVars, saveVars>>

\* the invocation is over; the wrapper may be invoked again
RetryDone ==
    /\ retryPc \in {"returned", "threw"}
    /\ attempt' = 0
    /\ retryPc' = "idle"
    /\ aiCalls' = 0
    /\ outcomes' = <<>>
    /\ waits' = <<>>
    /\ thrown' = NoError
    /\ UNCHANGED <<appVars, screenVars, saveVars>>

RetryNext ==
    \/ generateContentWithRetry
    \/ CallResolves
    \/ \E e \in ErrorTexts : CallRejects(e)
    \/ TimerFires
    \/ RetryDone

(***************************************************************************)
(* App: the step navigation (App.tsx)                                      *)
(***************************************************************************)

\* bounds of the model
MaxTurns == 2          \* questions the AI asks in one interview
MaxSubmits == 2        \* answer submissions in flight at once
MaxPendingMedia == 2   \* getUserMedia requests pending at once
MaxStreams == 2        \* microphone streams open at once
MaxHistory == 6        \* entries of the conversation history

Null == "null"
Undefined == "undefined"

Languages == {"en-US"}               \* LanguageCode (types.ts), one of six
JobRoles == {"Software Engineer"}    \* JobRole, one of eighteen
Levels == {"Entry-Level"}            \* ExperienceLevel, one of three
Transcripts == {"answer", " "}       \* what speech recognition may hear

NullFeedback == [kind |-> "null", overallScore |-> 0]
ReportFeedback == [kind |-> "report", overallScore |-> 70]
\* lines 412-417: the fixed fallback report
FallbackFeedback == [kind |-> "fallback", overallScore |-> 0]

AppInit ==
    /\ interviewState = "welcome"
    /\ selectedLanguage = Null
    /\ selectedRole = Null
    /\ selectedLevel = Null
    /\ finalTranscript = <<>>
    /\ feedback = NullFeedback
    /\ feedbackResponse = "none"

\* the state before any InterviewScreen was rendered
ScreenInit ==
    /\ mounted = FALSE
    /\ mountEffectsDue = FALSE
    /\ status = "starting"
    /\ turns = <<>>
    /\ isGeneratingFeedback = FALSE
    /\ finalAnswer = Null
    /\ submitEffectDue = FALSE
    /\ conversationHistoryRef = <<>>
    /\ recognitionRef = FALSE
    /\ transcript = ""
    /\ streamRef = 0
    /\ analyserRef = FALSE
    /\ animationFrameIdRef = "null"
    /\ speechSupported \in BOOLEAN
    /\ recState = "inactive"
    /\ liveStreams = {}
    /\ frames = 0
    /\ tasks = EmptyBag
    /\ clock = 0
    /\ chatOutcome = "none"

Task(k, caller, data) == [k |-> k, caller |-> caller, data |-> data]
Spawn(bag, t) == bag (+) SetToBag({t})
Settle(bag, t) == bag (-) SetToBag({t})
Pending(k) == {t \in BagToSet(tasks) : t.k = k}
RECURSIVE CountOf(_, _)
CountOf(S, bag) ==
    IF S = {} THEN 0
    ELSE LET t == CHOOSE x \in S : TRUE
         IN CopiesIn(t, bag) + CountOf(S \ {t}, bag)
NumPending(k) == CountOf(Pending(k), tasks)

\* no promise, playback, recognition session or animation frame of an
\* earlier screen is outstanding
Drained == tasks = EmptyBag /\ recState = "inactive" /\ frames = 0

\* lines 167-171: the cleanup of the setup effect, run when the screen unmounts
AbortRecognition(rec, st) == IF rec /\ st # "inactive" THEN "ending" ELSE st

\* useState/useRef initial values of an InterviewScreen (lines 95-109) and
\* the `transcript` local (line 146)
FreshScreenState ==
    /\ status' = "starting"
    /\ turns' = <<>>
    /\ isGeneratingFeedback' = FALSE
    /\ finalAnswer' = Null
    /\ submitEffectDue' = FALSE
    /\ conversationHistoryRef' = <<>>
    /\ recognitionRef' = FALSE
    /\ transcript' = ""
    /\ clock' = 0
    /\ chatOutcome' = "none"

\* The promises whose continuations still act once the screen is gone: a
\* pending getUserMedia opens a stream and starts recognition, and a pending
\* feedback request calls onInterviewEnd, a callback of the App.  What is
\* left of startInterview, handleAnswerSubmit and speakText only calls the
\* state setters of the unmounted component and writes its history ref.
Survivors(bag) ==
    LET keep == {t \in BagToSet(bag) : t.k \in {"media", "feedback"}}
    IN [t \in keep |-> bag[t]]

\* The InterviewScreen leaves the tree: the cleanup of the setup effect runs
\* (lines 167-171) and React drops the component's state, which the model
\* returns to its initial values.  The microphone refs stay: the recognition
\* handlers of the old screen still use them.
Unmount(bag) ==
    /\ mounted' = FALSE
    /\ mountEffectsDue' = FALSE
    /\ recState' = AbortRecognition(recognitionRef, recState)
    /\ tasks' = Survivors(bag)
    /\ FreshScreenState

\* lines 18-20
GetStartedTargetSkips == "role-select"
GetStartedTarget == "language-select"
handleGetStarted ==
    /\ interviewState = "welcome"
    /\ interviewState' = GetStartedTarget
    /\ UNCHANGED <<selectedLanguage, selectedRole, selectedLevel,
                   finalTranscript, feedback, feedbackResponse, screenVars,
                   retryVars, saveVars>>

\* line 23: setSelectedLanguage(languageCode)
StoredLanguageDropped(languageCode) == Null
StoredLanguage(languageCode) == languageCode

\* lines 22-25, called by LanguageSelector with a chosen (non-empty) code
handleLanguageSelect(languageCode) ==
    /\ interviewState = "language-select"
    /\ selectedLanguage' = StoredLanguage(languageCode)
    /\ interviewState' = "role-select"
    /\ UNCHANGED <<selectedRole, selectedLevel, finalTranscript, feedback,
                   feedbackResponse,
                   screenVars, retryVars, saveVars>>

\* lines 27-30
handleRoleSelect(role) ==
    /\ interviewState = "role-select"
    /\ selectedRole' = role
    /\ interviewState' = "level-select"
    /\ UNCHANGED <<selectedLanguage, selectedLevel, finalTranscript, feedback,
                   feedbackResponse,
                   screenVars, retryVars, saveVars>>

\* lines 62-68: rendering 'in-progress' falls back to 'language-select' when
\* a selection is missing, and renders the InterviewScreen otherwise
InProgressRender(lang, role, level) ==
    IF lang = Null \/ role = Null \/ level = Null
    THEN "language-select"
    ELSE "in-progress"

\* lines 32-35 and the render that follows: a fresh InterviewScreen mounts
\* with its initial state (lines 95-109)
handleLevelSelect(level) ==
    /\ interviewState = "level-select"
    /\ Drained
    /\ selectedLevel' = level
    /\ interviewState' = InProgressRender(selectedLanguage, selectedRole, level)
    /\ mounted' = (interviewState' = "in-progress")
    /\ mountEffectsDue' = mounted'
    /\ FreshScreenState
    /\ streamRef' = 0
    /\ analyserRef' = FALSE
    /\ animationFrameIdRef' = "null"
    /\ UNCHANGED <<selectedLanguage, selectedRole, finalTranscript, feedback,
                   feedbackResponse,
                   speechSupported, recState, liveStreams, frames, tasks,
                   retryVars, saveVars>>

\* lines 43-50
RestartTarget == "welcome"
handleRestart ==
    /\ selectedLanguage' = Null
    /\ selectedRole' = Null
    /\ selectedLevel' = Null
    /\ finalTranscript' = <<>>
    /\ feedback' = NullFeedback
    /\ feedbackResponse' = "none"
    /\ interviewState' = RestartTarget

\* FeedbackScreen's "Start New Interview" button (line 76 of App.tsx)
RestartFromFeedback ==
    /\ interviewState = "feedback"
    /\ feedback # NullFeedback
    /\ handleRestart
    /\ UNCHANGED <<screenVars, retryVars, saveVars>>

\* line 498: disabled={isGeneratingFeedback}
CancelButtonAlwaysEnabled == TRUE
CancelButtonEnabled == ~isGeneratingFeedback

\* InterviewScreen's "Cancel Interview" button (lines 496-502)
CancelInterview ==
    /\ mounted
    /\ ~mountEffectsDue
    /\ CancelButtonEnabled
    /\ handleRestart
    /\ Unmount(tasks)
    /\ UNCHANGED <<micVars, speechSupported, retryVars, saveVars>>

(***************************************************************************)
(* InterviewScreen: the conversation state machine                         *)
(***************************************************************************)

\* a state setter of a component that has unmounted does nothing
SetState(new, old) == IF mounted THEN new ELSE old

\* Date.now() when a turn is created (lines 233, 275), in milliseconds.  A
\* text-to-speech request and a recording lie between the first turn and the
\* second, so their ids differ; later turns can come from responses to
\* submissions that were in flight together, within one millisecond.
Now(ts) == IF Len(ts) < 2 THEN {clock + 1} ELSE {clock, clock + 1}

NewTurn(id, question) ==
    [id |-> id, question |-> question, answer |-> Undefined,
     feedback |-> Undefined, score |-> Undefined]

Entry(role, text) == [role |-> role, text |-> text]
StartMessage == Entry("user", "Start the interview.")

\* the finalAnswer effect (lines 297-301) runs again when finalAnswer or
\* handleAnswerSubmit (re-created when turns changes, line 294) changed;
\* it does something only when finalAnswer is set
EffectDue(newAnswer, turnsSet) ==
    /\ mounted
    /\ newAnswer # Null
    /\ (newAnswer # finalAnswer \/ turnsSet \/ submitEffectDue)

\* what the record button and the End button render as (lines 466-509)
RecordButtonEnabled ==
    /\ status \in {"waiting_for_user", "recording"}
    /\ ~isGeneratingFeedback
CanvasMounted == mounted /\ status = "recording" /\ ~isGeneratingFeedback
EndButtonEnabled ==
    /\ status \notin {"starting", "recording", "ai_speaking"}
    /\ ~isGeneratingFeedback

\* lines 132-145 and 217-230, 304-306: the effects of the first render.  The
\* recognition object is set up and startInterview sends the first request.
StartStatus == "processing_answer"
MountEffects ==
    /\ mounted /\ mountEffectsDue
    /\ mountEffectsDue' = FALSE
    /\ recognitionRef' = speechSupported
    /\ transcript' = ""
    /\ status' = StartStatus
    /\ tasks' = Spawn(tasks, Task("chat", "start", <<>>))
    /\ UNCHANGED <<mounted, turns, isGeneratingFeedback, finalAnswer,
                   submitEffectDue, conversationHistoryRef, micVars,
                   speechSupported, chatOutcome, recState, clock, 
                   appVars, retryVars, saveVars>>

\* lines 175-177: speakText(text) up to its await; TRUE when a request is sent
Speaks(text) == text # Undefined /\ text # ""

\* line 292 (finally) after speakText returned or the handler failed
FinallyKeeps(caller, answer) == answer
FinallyOf(caller, answer) == IF caller = "submit" THEN Null ELSE answer

\* line 241: the status startInterview's catch sets
StartFailedStatusWaiting == "waiting_for_user"
StartFailedStatus == "finished"

\* lines 231-242: the first chat request settles.  kind is "next" (a
\* question came back), "last" (no nextQuestion in the response) or "fail"
\* (the request or JSON.parse threw).
StartSettles(t, kind, id) ==
    /\ t.k = "chat" /\ t.caller = "start"
    /\ chatOutcome' = kind
    /\ IF kind = "fail"
       THEN /\ status' = SetState(StartFailedStatus, status)
            /\ tasks' = Settle(tasks, t)
            /\ UNCHANGED <<turns, conversationHistoryRef, clock, submitEffectDue>>
       ELSE LET firstQuestion == IF kind = "next" THEN "question" ELSE Undefined
            IN /\ turns' = SetState(<<NewTurn(id, firstQuestion)>>, turns)
               /\ clock' = id
               /\ conversationHistoryRef' = <<StartMessage, Entry("model", kind)>>
               /\ submitEffectDue' = EffectDue(finalAnswer, TRUE)
               /\ IF Speaks(firstQuestion)
                  THEN /\ status' = SetState("ai_speaking", status)
                       /\ tasks' = Spawn(Settle(tasks, t), Task("tts", "start", <<>>))
                  ELSE /\ status' = status
                       /\ tasks' = Settle(tasks, t)
    /\ UNCHANGED <<mounted, mountEffectsDue, isGeneratingFeedback, finalAnswer,
                   recognitionRef, transcript, micVars, speechSupported,
                   recState, appVars, retryVars, saveVars>>

\* String.prototype.trim, on the texts of the model
Trim(text) == IF text = " " THEN "" ELSE text

\* line 254: the answer is put on the turns whose id is the last turn's id
WithAnswer(ts, answer) ==
    LET currentTurnId == ts[Len(ts)].id
    IN [i \in 1..Len(ts) |->
          IF ts[i].id = currentTurnId THEN [ts[i] EXCEPT !.answer = answer] ELSE ts[i]]

\* lines 245-266: the finalAnswer effect calls handleAnswerSubmit(finalAnswer)
handleAnswerSubmit ==
    /\ mounted /\ ~mountEffectsDue /\ submitEffectDue
    /\ IF Trim(finalAnswer) = ""
       THEN /\ status' = "waiting_for_user"
            /\ submitEffectDue' = FALSE
            /\ UNCHANGED <<turns, tasks>>
       ELSE IF turns = <<>>
       THEN \* line 253 throws a TypeError: the handler stops there
            /\ status' = "processing_answer"
            /\ submitEffectDue' = FALSE
            /\ UNCHANGED <<turns, tasks>>
       ELSE /\ NumPending("chat") < MaxSubmits
            /\ Len(conversationHistoryRef) + 2 <= MaxHistory
            /\ status' = "processing_answer"
            /\ turns' = WithAnswer(turns, finalAnswer)
            /\ tasks' = Spawn(tasks,
                  Task("chat", "submit",
                       Append(conversationHistoryRef, Entry("user", finalAnswer))))
            /\ submitEffectDue' = TRUE
    /\ UNCHANGED <<mounted, mountEffectsDue, isGeneratingFeedback, finalAnswer,
                   refVars, speechSupported, chatOutcome, recState, liveStreams, frames,
                   clock, appVars, retryVars, saveVars>>

\* lines 270-278: the updater of setTurns after a response
WithFeedbackOnly(prevTurns, kind, id) ==
    IF prevTurns = <<>> THEN prevTurns
    ELSE [prevTurns EXCEPT ![Len(prevTurns)].feedback = "feedback",
                           ![Len(prevTurns)].score = "score"]
WithFeedback(prevTurns, kind, id) ==
    LET lastTurnIndex == Len(prevTurns)
        updatedLastTurn ==
            IF lastTurnIndex = 0
            THEN [NewTurn(-1, Undefined) EXCEPT !.feedback = "feedback",
                                                !.score = "score"]
            ELSE [prevTurns[lastTurnIndex] EXCEPT !.feedback = "feedback",
                                                   !.score = "score"]
        kept == SubSeq(prevTurns, 1, lastTurnIndex - 1)
    IN IF kind = "next"
       THEN kept \o <<updatedLastTurn, NewTurn(id, "question")>>
       ELSE kept \o <<updatedLastTurn>>

\* lines 267-293: the chat request of an answer submission settles
SubmitSettles(t, kind, id) ==
    /\ t.k = "chat" /\ t.caller = "submit"
    /\ chatOutcome' = kind
    /\ kind = "next" => Len(turns) < MaxTurns
    /\ IF kind = "fail"
       THEN /\ status' = SetState("waiting_for_user", status)
            /\ finalAnswer' = SetState(FinallyOf("submit", finalAnswer), finalAnswer)
            /\ tasks' = Settle(tasks, t)
            /\ submitEffectDue' = FALSE
            /\ UNCHANGED <<turns, conversationHistoryRef, clock>>
       ELSE /\ turns' = SetState(WithFeedback(turns, kind, id), turns)
            /\ clock' = IF kind = "next" THEN id ELSE clock
            /\ conversationHistoryRef' = Append(t.data, Entry("model", kind))
            /\ IF kind = "next"
               THEN /\ status' = SetState("ai_speaking", status)
                    /\ tasks' = Spawn(Settle(tasks, t), Task("tts", "submit", <<>>))
                    /\ finalAnswer' = finalAnswer
                    /\ submitEffectDue' = EffectDue(finalAnswer, TRUE)
               ELSE /\ status' = SetState("finished", status)
                    /\ tasks' = Settle(tasks, t)
                    /\ finalAnswer' = SetState(Null, finalAnswer)
                    /\ submitEffectDue' = FALSE
    /\ UNCHANGED <<mounted, mountEffectsDue, isGeneratingFeedback,
                   recognitionRef, transcript, micVars, speechSupported,
                   recState, appVars, retryVars, saveVars>>

\* lines 205, 209, 213: the status speakText sets when the speech is over
AfterSpeechStuck == "ai_speaking"
AfterSpeech == "waiting_for_user"

\* lines 190-214: the text-to-speech request of speakText settles.  kind is
\* "audio" (playback starts), "noaudio" (no inline data) or "fail" (the
\* request or the decoding threw).  The caller then carries on: the finally
\* of handleAnswerSubmit (line 292) or the end of startInterview.
TtsSettles(t, kind) ==
    /\ t.k = "tts"
    /\ IF kind = "audio"
       THEN /\ tasks' = Spawn(Settle(tasks, t), Task("playing", t.caller, <<>>))
            /\ status' = status
       ELSE /\ tasks' = Settle(tasks, t)
            /\ status' = SetState(AfterSpeech, status)
    /\ finalAnswer' = SetState(FinallyOf(t.caller, finalAnswer), finalAnswer)
    /\ submitEffectDue' = EffectDue(finalAnswer', FALSE)
    /\ UNCHANGED <<mounted, mountEffectsDue, turns, isGeneratingFeedback,
                   refVars, speechSupported, chatOutcome, recState, liveStreams, frames,
                   clock, appVars, retryVars, saveVars>>

\* lines 204-207: source.onended
PlaybackEnds(t) ==
    /\ t.k = "playing"
    /\ tasks' = Settle(tasks, t)
    /\ status' = SetState(AfterSpeech, status)
    /\ UNCHANGED <<mounted, mountEffectsDue, turns, isGeneratingFeedback,
                   finalAnswer, submitEffectDue, refVars, speechSupported, chatOutcome,
                   recState, liveStreams, frames, clock, 
                   appVars, retryVars, saveVars>>

(***************************************************************************)
(* InterviewScreen: recording and the microphone visualization             *)
(***************************************************************************)

\* lines 113-129; the four values are the new animationFrameIdRef, frames,
\* liveStreams and streamRef (analyserRef and audioContextRef become null)
StopTracks(s, live) == live \ {s}
stopMicrophoneVisualization ==
    /\ animationFrameIdRef' = "null"
    /\ frames' = IF animationFrameIdRef = "scheduled" THEN frames - 1 ELSE frames
    /\ liveStreams' = StopTracks(streamRef, liveStreams)
    /\ streamRef' = 0
    /\ analyserRef' = FALSE

\* getUserMedia hands out a stream that is not open yet
FreshStream(live) == CHOOSE s \in 1..MaxStreams : s \notin live

\* lines 308-314: the record button is clicked
handleToggleRecording ==
    /\ mounted /\ ~mountEffectsDue
    /\ RecordButtonEnabled
    /\ IF ~recognitionRef
       THEN UNCHANGED <<recState, tasks>>
       ELSE IF status = "recording"
       THEN /\ recState' = IF recState = "active" THEN "stopping" ELSE recState
            /\ tasks' = tasks
       ELSE /\ status = "waiting_for_user"
            /\ NumPending("media") < MaxPendingMedia
            /\ tasks' = Spawn(tasks, Task("media", "toggle", <<>>))
            /\ recState' = recState
    /\ UNCHANGED <<stateVars, refVars, speechSupported, chatOutcome, liveStreams, frames,
                   clock, appVars, retryVars, saveVars>>

\* line 375: recognition.start() throws when the session has already started
StartRecognition(st) == IF st = "inactive" THEN "active" ELSE st

\* lines 316-376: getUserMedia resolved; the stream is kept, visualize() runs
\* once (it returns at line 329 unless the canvas is rendered), the status is
\* set and recognition is started
MediaResolves(t) ==
    /\ t.k = "media"
    /\ Cardinality(liveStreams) < MaxStreams
    /\ tasks' = Settle(tasks, t)
    /\ LET stream == FreshStream(liveStreams)
       IN /\ streamRef' = stream
          /\ liveStreams' = liveStreams \cup {stream}
    /\ analyserRef' = TRUE
    /\ IF CanvasMounted
       THEN /\ frames' = frames + 1
            /\ animationFrameIdRef' = "scheduled"
       ELSE UNCHANGED <<frames, animationFrameIdRef>>
    /\ status' = SetState("recording", status)
    /\ recState' = StartRecognition(recState)
    /\ UNCHANGED <<mounted, mountEffectsDue, turns, isGeneratingFeedback,
                   finalAnswer, submitEffectDue, conversationHistoryRef,
                   recognitionRef, transcript, speechSupported, chatOutcome, clock, appVars, retryVars, saveVars>>

\* lines 377-380: getUserMedia rejected
MediaRejects(t) ==
    /\ t.k = "media"
    /\ tasks' = Settle(tasks, t)
    /\ UNCHANGED <<stateVars, refVars, speechSupported, chatOutcome, recState, liveStreams,
                   frames, clock, appVars, retryVars, saveVars>>

\* lines 328-371: a scheduled visualize callback runs.  own is TRUE for the
\* callback whose id animationFrameIdRef holds.
FrameFires(own) ==
    /\ frames > 0
    /\ IF own THEN animationFrameIdRef = "scheduled"
       ELSE frames > (IF animationFrameIdRef = "scheduled" THEN 1 ELSE 0)
    /\ IF analyserRef /\ CanvasMounted
       THEN /\ animationFrameIdRef' = "scheduled"
            /\ frames' = frames
       ELSE /\ frames' = frames - 1
            /\ animationFrameIdRef' = IF own THEN "stale" ELSE animationFrameIdRef
    /\ UNCHANGED <<stateVars, conversationHistoryRef, recognitionRef, transcript,
                   streamRef, analyserRef, speechSupported, chatOutcome, recState,
                   liveStreams, tasks, clock, appVars, retryVars, saveVars>>

Listening == recState \in {"active", "stopping"}

\* lines 147-149: recognition.onresult (continuous = false: one final result)
RecognitionResult(text) ==
    /\ Listening
    /\ transcript' = text
    /\ recState' = "ending"
    /\ UNCHANGED <<stateVars, conversationHistoryRef, recognitionRef, micVars,
                   speechSupported, chatOutcome, tasks, clock, appVars, retryVars, saveVars>>

\* lines 160-164: recognition.onerror; the end event follows
RecognitionError ==
    /\ Listening
    /\ recState' = "ending"
    /\ stopMicrophoneVisualization
    /\ status' = SetState("waiting_for_user", status)
    /\ UNCHANGED <<mounted, mountEffectsDue, turns, isGeneratingFeedback,
                   finalAnswer, submitEffectDue, conversationHistoryRef,
                   recognitionRef, transcript, speechSupported, chatOutcome, tasks, clock, appVars, retryVars, saveVars>>

\* lines 151-158: recognition.onend
RecognitionEnd ==
    /\ recState # "inactive"
    /\ recState' = "inactive"
    /\ stopMicrophoneVisualization
    /\ IF transcript # ""
       THEN /\ finalAnswer' = SetState(transcript, finalAnswer)
            /\ submitEffectDue' = EffectDue(finalAnswer', FALSE)
            /\ status' = status
       ELSE /\ status' = SetState("waiting_for_user", status)
            /\ UNCHANGED <<finalAnswer, submitEffectDue>>
    /\ UNCHANGED <<mounted, mountEffectsDue, turns, isGeneratingFeedback,
                   conversationHistoryRef, recognitionRef, transcript,
                   speechSupported, chatOutcome, tasks, clock, appVars, retryVars, saveVars>>

(***************************************************************************)
(* InterviewScreen: ending the interview                                   *)
(***************************************************************************)

Message(id, speaker, text) == [id |-> id, speaker |-> speaker, text |-> text]

\* line 391: if (turn.answer)
HasAnswerAlways(turn) == TRUE
HasAnswer(turn) == turn.answer # Undefined /\ turn.answer # ""

\* lines 389-395: turns.reduce(...)
RECURSIVE TranscriptOf(_)
TranscriptOf(ts) ==
    IF ts = <<>> THEN <<>>
    ELSE LET turn == ts[Len(ts)]
             acc == TranscriptOf(SubSeq(ts, 1, Len(ts) - 1))
             withQuestion == Append(acc, Message(turn.id, "ai", turn.question))
         IN IF HasAnswer(turn)
            THEN Append(withQuestion, Message(turn.id + 1, "user", turn.answer))
            ELSE withQuestion

\* lines 385-406: the End button is clicked; the feedback request is sent
handleEndInterview ==
    /\ mounted /\ ~mountEffectsDue
    /\ EndButtonEnabled
    /\ isGeneratingFeedback' = TRUE
    /\ status' = "finished"
    /\ tasks' = Spawn(tasks, Task("feedback", "end", TranscriptOf(turns)))
    /\ UNCHANGED <<mounted, mountEffectsDue, turns, finalAnswer,
                   submitEffectDue, refVars, speechSupported, chatOutcome, recState,
                   liveStreams, frames, clock, appVars, retryVars, saveVars>>

\* App.tsx lines 37-41, called as onInterviewEnd; the InterviewScreen is no
\* longer rendered afterwards
handleInterviewEnd(transcriptArg, feedbackArg) ==
    /\ finalTranscript' = transcriptArg
    /\ feedback' = feedbackArg
    /\ interviewState' = "feedback"

\* lines 408-418: what onInterviewEnd is handed
FeedbackOfLost(kind) == IF kind = "report" THEN ReportFeedback ELSE NullFeedback
FeedbackOf(kind) == IF kind = "report" THEN ReportFeedback ELSE FallbackFeedback

\* lines 408-421: the feedback request settled: the parsed report when kind
\* is "report", the fallback report when the request or JSON.parse threw
FeedbackSettles(t, kind) ==
    /\ t.k = "feedback"
    /\ feedbackResponse' = kind
    /\ handleInterviewEnd(t.data, FeedbackOf(kind))
    /\ Unmount(Settle(tasks, t))
    /\ isSaved' = FALSE
    /\ UNCHANGED <<selectedLanguage, selectedRole, selectedLevel, micVars,
                   speechSupported, retryVars, storage>>


(***************************************************************************)
(* FeedbackScreen: saving the report (FeedbackScreen.tsx)                  *)
(***************************************************************************)

MaxReports == 2        \* reports in localStorage before the screen opens
MaxNow == 3            \* the latest value of Date.now()

\* What localStorage.getItem returns: null, or a string, which is empty,
\* not JSON, JSON that is not an array, or the JSON text of an array.
NoItem == [kind |-> "null", items |-> <<>>]
EmptyString == [kind |-> "empty", items |-> <<>>]
NotJson == [kind |-> "invalid", items |-> <<>>]
JsonObject == [kind |-> "object", items |-> <<>>]
JsonArray(items) == [kind |-> "array", items |-> items]

\* JSON.stringify leaves out a property whose value is undefined, and
\* JSON.parse gives back an object without it (reading it gives undefined)
Omitted == "omitted"
StringifyText(text) == IF text = Undefined THEN Omitted ELSE text
ParseText(text) == IF text = Omitted THEN Undefined ELSE text
StringifyMessages(msgs) ==
    [i \in 1..Len(msgs) |-> [msgs[i] EXCEPT !.text = StringifyText(@)]]
ParseMessages(msgs) ==
    [i \in 1..Len(msgs) |-> [msgs[i] EXCEPT !.text = ParseText(@)]]
StringifyReport(r) == [r EXCEPT !.transcript = StringifyMessages(@)]
ParseReport(r) == [r EXCEPT !.transcript = ParseMessages(@)]
StringifyReports(rs) == [i \in 1..Len(rs) |-> StringifyReport(rs[i])]
ParseReports(rs) == [i \in 1..Len(rs) |-> ParseReport(rs[i])]

\* lines 40-45
Report(now, fb, tr) ==
    [id |-> now, feedback |-> fb, transcript |-> tr, savedAt |-> now]

\* line 50: existingReports.unshift(report)
UnshiftOverwrites(existingReports, report) == <<report>>
Unshift(existingReports, report) == <<report>> \o existingReports

\* transcripts a finished interview can hand to the screen
AnsweredTurn == [NewTurn(1, "question") EXCEPT !.answer = "answer"]
PropTranscripts ==
    { <<>>,
      TranscriptOf(<<AnsweredTurn>>),
      TranscriptOf(<<NewTurn(1, Undefined)>>) }
PropFeedbacks == {ReportFeedback, FallbackFeedback}

\* reports an earlier session stored
StoredReports ==
    { StringifyReport(Report(0, ReportFeedback, TranscriptOf(<<AnsweredTurn>>))),
      StringifyReport(Report(1, FallbackFeedback, TranscriptOf(<<NewTurn(1, Undefined)>>))) }
RECURSIVE SeqsUpTo(_, _)
SeqsUpTo(S, n) ==
    IF n = 0 THEN {<<>>}
    ELSE LET shorter == SeqsUpTo(S, n - 1)
         IN shorter \cup {Append(q, x) : q \in shorter, x \in S}
StoredItems ==
    {NoItem, EmptyString, NotJson, JsonObject}
        \cup {JsonArray(items) : items \in SeqsUpTo(StoredReports, MaxReports)}

SaveVarsInit ==
    /\ isSaved = FALSE
    /\ storage = NoItem

\* a FeedbackScreen has just been rendered (App.tsx line 76)
SaveInit ==
    /\ RetryVarsInit
    /\ ScreenInit
    /\ interviewState = "feedback"
    /\ selectedLanguage \in Languages
    /\ selectedRole \in JobRoles
    /\ selectedLevel \in Levels
    /\ finalTranscript \in PropTranscripts
    /\ feedback \in PropFeedbacks
    /\ feedbackResponse = (IF feedback = ReportFeedback THEN "report" ELSE "fail")
    /\ isSaved = FALSE
    /\ storage \in StoredItems

\* line 119: disabled={isSaved}
SaveButtonAlwaysEnabled == TRUE
SaveButtonEnabled == ~isSaved

\* lines 38-58: the Save button (enabled while isSaved is false, line 119)
\* is clicked.  quotaExceeded: localStorage.setItem throws.
handleSave(now, quotaExceeded) ==
    /\ interviewState = "feedback"
    /\ feedback # NullFeedback
    /\ SaveButtonEnabled
    /\ clock' = now
    /\ LET report == Report(now, feedback, finalTranscript)
           existingReportsRaw == storage
           parses == existingReportsRaw.kind \in {"null", "empty", "array", "object"}
           existingReports ==
               IF existingReportsRaw.kind = "array"
               THEN ParseReports(existingReportsRaw.items)
               ELSE <<>>
           isArray == existingReportsRaw.kind \in {"null", "empty", "array"}
       IN IF parses /\ isArray /\ ~quotaExceeded
          THEN /\ storage' = JsonArray(StringifyReports(Unshift(existingReports, report)))
               /\ isSaved' = TRUE
          ELSE UNCHANGED <<storage, isSaved>>
    /\ UNCHANGED <<appVars, stateVars, refVars, speechSupported, chatOutcome, recState,
                   liveStreams, frames, tasks, retryVars>>

SaveNext ==
    \/ \E now \in {clock, clock + 1} \cap (0..MaxNow), quotaExceeded \in BOOLEAN :
          handleSave(now, quotaExceeded)
    \/ RestartFromFeedback

SaveSpec == SaveInit /\ [][SaveNext]_vars

Init == RetryVarsInit /\ AppInit /\ ScreenInit /\ SaveVarsInit

Next ==
    \/ handleGetStarted
    \/ \E l \in Languages : handleLanguageSelect(l)
    \/ \E r \in JobRoles : handleRoleSelect(r)
    \/ \E l \in Levels : handleLevelSelect(l)
    \/ RestartFromFeedback
    \/ CancelInterview
    \/ MountEffects
    \/ \E t \in Pending("chat"), kind \in {"next", "last", "fail"}, id \in Now(turns) :
          StartSettles(t, kind, id)
    \/ handleAnswerSubmit
    \/ \E t \in Pending("chat"), kind \in {"next", "last", "fail"}, id \in Now(turns) :
          SubmitSettles(t, kind, id)
    \/ \E t \in Pending("tts"), kind \in {"audio", "noaudio", "fail"} :
          TtsSettles(t, kind)
    \/ \E t \in Pending("playing") : PlaybackEnds(t)
    \/ handleToggleRecording
    \/ \E t \in Pending("media") : MediaResolves(t)
    \/ \E t \in Pending("media") : MediaRejects(t)
    \/ \E own \in BOOLEAN : FrameFires(own)
    \/ \E text \in Transcripts : RecognitionResult(text)
    \/ RecognitionError
    \/ RecognitionEnd
    \/ handleEndInterview
    \/ \E t \in Pending("feedback"), kind \in {"report", "fail"} :
          FeedbackSettles(t, kind)

Spec == Init /\ [][Next]_vars

\* the requests and the playback the screen waits for
FeedbackRequestSettles ==
    \E t \in Pending("feedback"), kind \in {"report", "fail"} :
        FeedbackSettles(t, kind)
TtsRequestSettles ==
    \E t \in Pending("tts"), kind \in {"audio", "noaudio", "fail"} :
        TtsSettles(t, kind)
PlaybackFinishes == \E t \in Pending("playing") : PlaybackEnds(t)

\* Every request to the AI settles (generateContentWithRetry completes) and
\* every playback that started comes to its end.
FairSpec ==
    /\ Init
    /\ [][Next]_vars
    /\ WF_vars(FeedbackRequestSettles)
    /\ WF_vars(TtsRequestSettles)
    /\ WF_vars(PlaybackFinishes)


RetryInit == RetryVarsInit /\ AppInit /\ ScreenInit /\ SaveVarsInit /\ SaveVarsInit

RetrySpec == RetryInit /\ [][RetryNext]_vars

\* Each underlying AI call settles and each backoff timer fires.
RetryFairSpec ==
    /\ RetryInit
    /\ [][RetryNext]_vars
    /\ WF_vars(CallSettles)
    /\ WF_vars(TimerFires)

\* the calls of the log that failed with a rate-limit error
RateLimited(log) ==
    {i \in 1..Len(log) :
        /\ ~log[i].ok
        /\ \/ Includes(log[i].text, <<"4", "2", "9">>)
           \/ Includes(log[i].text, TxtResourceExhausted)}

\* C1: one invocation of generateContentWithRetry issues at most MAX_RETRIES
\* (3) calls, and after a call has succeeded no further call is issued: the
\* success is the last outcome and no call is pending.
C1_AtMostMaxRetriesCalls ==
    /\ aiCalls <= 3
    /\ Len(outcomes) <= aiCalls
    /\ \A i \in 1..Len(outcomes) :
          outcomes[i].ok =>
             /\ i = Len(outcomes)
             /\ aiCalls = i
             /\ retryPc = "returned"

C1_Witness ==
    /\ retryPc = "returned"
    /\ aiCalls = 3
    /\ Len(outcomes) = 3
    /\ outcomes[3].ok

\* C2: a failure that is not a rate-limit error is rethrown at once: it is
\* the last outcome, the invocation has thrown that very error, and no wait
\* and no call follows it, however many rate-limited attempts came before;
\* and every wait follows a rate-limited failure.
C2_OnlyRateLimitRetried ==
    /\ \A i \in 1..Len(outcomes) :
          (~outcomes[i].ok /\ i \notin RateLimited(outcomes)) =>
             /\ i = Len(outcomes)
             /\ retryPc = "threw"
             /\ thrown = outcomes[i].text
             /\ aiCalls = i
             /\ Len(waits) = i - 1
    /\ Len(waits) <= Cardinality(RateLimited(outcomes))

C2_Witness ==
    /\ retryPc = "threw"
    /\ Len(outcomes) = 3
    /\ RateLimited(outcomes) = {1, 2}

\* C3: the wait after the k-th rate-limited failure is 1000 * 2^(k-1) ms,
\* each wait doubling the one before, and the failure that reaches the
\* attempt limit is followed by no wait.
C3_ExponentialBackoff ==
    LET n == Cardinality(RateLimited(outcomes)) IN
    /\ Len(waits) = (IF n >= 3 THEN 2 ELSE n)
    /\ Len(waits) >= 1 => waits[1] = 1000
    /\ Len(waits) >= 2 => waits[2] = 2000
    /\ \A k \in 2..Len(waits) : waits[k] = 2 * waits[k - 1]

C3_Witness ==
    /\ retryPc = "threw"
    /\ Cardinality(RateLimited(outcomes)) = 3
    /\ waits = <<1000, 2000>>

\* C4: every invocation eventually completes, returning or throwing,
\* provided each AI call settles and each backoff timer fires.
C4_InvocationCompletes ==
    (retryPc \in {"calling", "waiting"}) ~> (retryPc \in {"returned", "threw"})

C4_Witness ==
    /\ retryPc = "threw"
    /\ aiCalls = 3
    /\ Len(waits) = 2
    /\ thrown # NoError

\* the same InterviewScreen is rendered before and after the step
SameScreen == mounted /\ mounted'

\* C5: after the interview screen mounts, the first status that follows
\* 'starting' is 'ai_speaking', with no other status in between.
C5_StartingThenAiSpeaking ==
    [][(SameScreen /\ status = "starting" /\ status' # "starting")
          => status' = "ai_speaking"]_vars

\* C6: 'finished' is final: once the status of a screen is 'finished', no
\* later event (a pending AI response, a playback ending, a pending
\* microphone permission, a recognition callback) changes it.
C6_FinishedIsFinal ==
    [][(SameScreen /\ status = "finished") => status' = "finished"]_vars

\* C7: the status becomes 'recording' only from 'waiting_for_user'.
C7_RecordingOnlyFromWaiting ==
    [][(SameScreen /\ status # "recording" /\ status' = "recording")
          => status = "waiting_for_user"]_vars

\* C8: while the status of the screen is not 'recording', no microphone
\* stream is open (every acquired stream has been stopped and streamRef is
\* null) and no visualization frame is scheduled.
C8_MicrophoneOnlyWhileRecording ==
    (mounted /\ status # "recording") =>
        (liveStreams = {} /\ streamRef = 0 /\ frames = 0)

\* the reports of the list stored under 'ai-interview-reports'
StoredList(item) == IF item.kind = "array" THEN item.items ELSE <<>>
RemoveAt(q, i) == SubSeq(q, 1, i - 1) \o SubSeq(q, i + 1, Len(q))

\* C9: after a successful handleSave the stored list holds every report
\* that was stored before, unchanged and in the same relative order, plus
\* exactly one new report (the one of this screen): its length grows by one.
C9_SaveKeepsEarlierReports ==
    [][(~isSaved /\ isSaved') =>
          LET old == StoredList(storage)
              new == StoredList(storage')
          IN /\ storage'.kind = "array"
             /\ Len(new) = Len(old) + 1
             /\ \E i \in 1..Len(new) :
                   /\ RemoveAt(new, i) = old
                   /\ new[i].feedback = feedback
                   /\ new[i].id = clock']_vars

C9_Witness ==
    /\ isSaved
    /\ Len(StoredList(storage)) = 3
    /\ StoredList(storage)[2] # StoredList(storage)[3]

\* C10: interviewState changes only welcome -> language-select ->
\* role-select -> level-select -> in-progress -> feedback, or back to
\* 'welcome' by restart (from feedback) or cancel (from in-progress).
C10_StepsInOrder ==
    [][interviewState' # interviewState =>
          <<interviewState, interviewState'>> \in
             { <<"welcome", "language-select">>,
               <<"language-select", "role-select">>,
               <<"role-select", "level-select">>,
               <<"level-select", "in-progress">>,
               <<"in-progress", "feedback">>,
               <<"in-progress", "welcome">>,
               <<"feedback", "welcome">> }]_vars

C10_Witness ==
    /\ interviewState = "feedback"
    /\ feedback = ReportFeedback
    /\ Len(finalTranscript) = 2

\* C11: the App's 'should not happen' fallbacks are unreachable: while the
\* state is 'in-progress' the language, role and level are all set and the
\* InterviewScreen is what is rendered; when a level is about to be chosen
\* the render of 'in-progress' will not take the fallback; and while the
\* state is 'feedback' the feedback is set.
C11_FallbacksUnreachable ==
    /\ interviewState = "in-progress" =>
          /\ selectedLanguage # Null
          /\ selectedRole # Null
          /\ selectedLevel # Null
          /\ mounted
    /\ interviewState = "level-select" =>
          \A l \in Levels :
             InProgressRender(selectedLanguage, selectedRole, l) = "in-progress"
    /\ interviewState = "feedback" => feedback # NullFeedback

C11_Witness ==
    /\ interviewState = "feedback"
    /\ feedback = FallbackFeedback
    /\ selectedLanguage \in Languages
    /\ selectedRole \in JobRoles
    /\ selectedLevel \in Levels
    /\ finalTranscript # <<>>

\* C12: a turn is one question/answer/feedback unit: on the rendered
\* interview screen every turn that carries feedback or a score also carries
\* an answer, and every turn except the last one carries an answer.
C12_TurnsAreUnits ==
    mounted =>
       \A i \in 1..Len(turns) :
          /\ (turns[i].feedback # Undefined \/ turns[i].score # Undefined)
                => HasAnswer(turns[i])
          /\ i < Len(turns) => HasAnswer(turns[i])

FeedbackTasks(bag) == {t \in BagToSet(bag) : t.k = "feedback"}

\* C13: ending the interview always yields a feedback report.  A click on
\* End sends one feedback request carrying the transcript assembled from the
\* turns; while it is pending nothing else calls onInterviewEnd; when it
\* settles onInterviewEnd is called once, with that transcript and with the
\* parsed report if the request and the parsing succeeded and the fallback
\* report (overallScore 0) if not; and the call eventually happens.
C13_EndYieldsReport ==
    /\ [](Cardinality(FeedbackTasks(tasks)) = (IF isGeneratingFeedback THEN 1 ELSE 0))
    /\ [](\A t \in FeedbackTasks(tasks) : tasks[t] = 1)
    /\ [][(~isGeneratingFeedback /\ isGeneratingFeedback') =>
             \E t \in FeedbackTasks(tasks') : t.data = TranscriptOf(turns)]_vars
    /\ [][(feedback' # feedback /\ interviewState' # "welcome") =>
             /\ isGeneratingFeedback
             /\ interviewState = "in-progress"
             /\ interviewState' = "feedback"
             /\ FeedbackTasks(tasks') = {}
             /\ \E t \in FeedbackTasks(tasks) : finalTranscript' = t.data
             /\ feedbackResponse' = "report" => feedback' = ReportFeedback
             /\ feedbackResponse' = "fail" =>
                   feedback' = FallbackFeedback /\ feedback'.overallScore = 0
             /\ feedbackResponse' \in {"report", "fail"}]_vars
    /\ [][(interviewState = "in-progress" /\ interviewState' = "feedback")
             => feedback' # feedback]_vars
    /\ isGeneratingFeedback ~> (interviewState = "feedback")

C13_Witness ==
    /\ interviewState = "feedback"
    /\ feedbackResponse = "fail"
    /\ feedback = FallbackFeedback
    /\ Len(finalTranscript) = 2

\* the chat requests in flight that submit the answer held in finalAnswer
SubmissionsOf(answer) ==
    {t \in Pending("chat") :
        /\ t.caller = "submit"
        /\ t.data[Len(t.data)] = Entry("user", answer)}

\* C14: each transcribed answer is submitted exactly once: while a value is
\* held in finalAnswer, at most one chat request submitting it has been
\* issued, although handleAnswerSubmit is re-created when turns changes.
C14_AnswerSubmittedOnce ==
    (mounted /\ finalAnswer # Null) =>
        CountOf(SubmissionsOf(finalAnswer), tasks) <= 1

\* C15: when a recording ends without any recognized speech in that
\* recording (the session goes from listening straight to its end: no
\* result, no error), no answer is stored for submission and the status
\* returns to 'waiting_for_user', in every recording of the interview.
C15_SilentRecordingSubmitsNothing ==
    [][(SameScreen /\ Listening /\ recState' = "inactive") =>
          /\ finalAnswer' = finalAnswer
          /\ submitEffectDue' = submitEffectDue
          /\ status' = "waiting_for_user"]_vars

\* C16: while an AI audio playback started by speakText is in progress on
\* the rendered screen, the status is 'ai_speaking', so the record button
\* is disabled, no recording runs and no second playback runs beside it.
C16_SpeakingWhilePlaying ==
    (mounted /\ Pending("playing") # {}) =>
        /\ status = "ai_speaking"
        /\ NumPending("playing") = 1
        /\ ~Listening

\* C17: a second click on the record button while the first getUserMedia
\* request is pending results in at most one recording session: at most one
\* microphone stream is open, and every open stream is the one streamRef
\* holds, so that stopMicrophoneVisualization stops it.
C17_OneRecordingSession ==
    /\ Cardinality(liveStreams) <= 1
    /\ \A s \in liveStreams : s = streamRef

\* the chat requests of answer submissions, and the speech requests, in a bag
NumSubmitsIn(bag) ==
    CountOf({t \in BagToSet(bag) : t.k = "chat" /\ t.caller = "submit"}, bag)
NumSpeechIn(bag) ==
    CountOf({t \in BagToSet(bag) : t.k = "tts"}, bag)

\* a chat request of handleAnswerSubmit settles in this step, as `kind`
SubmitSettled(kind) ==
    /\ SameScreen
    /\ NumSubmitsIn(tasks') < NumSubmitsIn(tasks)
    /\ chatOutcome' = kind

\* C18: when the chat request of handleAnswerSubmit (or the parsing of its
\* response) fails, the status becomes 'waiting_for_user', the handler
\* leaves the conversation history and the turns as they are (no turn is
\* added, no feedback attached), starts no speech, and finalAnswer is null.
C18_FailedSubmitRestores ==
    [][SubmitSettled("fail") =>
          /\ status' = "waiting_for_user"
          /\ conversationHistoryRef' = conversationHistoryRef
          /\ turns' = turns
          /\ NumSpeechIn(tasks') = NumSpeechIn(tasks)
          /\ finalAnswer' = Null]_vars

C18_Witness ==
    /\ mounted
    /\ chatOutcome = "fail"
    /\ status = "waiting_for_user"
    /\ finalAnswer = Null
    /\ Len(turns) = 1
    /\ turns[1].answer = "answer"
    /\ turns[1].feedback = Undefined
    /\ Len(conversationHistoryRef) = 2
    /\ tasks = EmptyBag

\* C19: whenever speakText sends its speech request (non-empty text), the
\* status becomes 'ai_speaking', and from 'ai_speaking' the screen always
\* gets to 'waiting_for_user' (or is closed): after the playback, after a
\* response without audio, and after a failed request or decoding.
C19_SpeechEndsInWaiting ==
    /\ [][(SameScreen /\ NumSpeechIn(tasks') > NumSpeechIn(tasks))
             => status' = "ai_speaking"]_vars
    /\ (mounted /\ status = "ai_speaking")
          ~> (~mounted \/ status = "waiting_for_user")

C19_Witness ==
    /\ mounted
    /\ status = "ai_speaking"
    /\ Pending("playing") # {}
    /\ Pending("tts") = {}
    /\ Len(turns) = 2

\* C20: a successful answer submission whose response has no nextQuestion
\* sets the status to 'finished', attaches the feedback and score to the
\* last turn, adds no turn and starts no speech; a response with a
\* nextQuestion attaches them likewise, appends exactly one new turn holding
\* that question and sends one speech request for it.
C20_ResponseUpdatesTurns ==
    [][/\ SubmitSettled("last") =>
             /\ status' = "finished"
             /\ Len(turns') = Len(turns)
             /\ turns' = [turns EXCEPT ![Len(turns)].feedback = "feedback",
                                       ![Len(turns)].score = "score"]
             /\ NumSpeechIn(tasks') = NumSpeechIn(tasks)
       /\ SubmitSettled("next") =>
             /\ status' = "ai_speaking"
             /\ Len(turns') = Len(turns) + 1
             /\ SubSeq(turns', 1, Len(turns)) =
                   [turns EXCEPT ![Len(turns)].feedback = "feedback",
                                 ![Len(turns)].score = "score"]
             /\ turns'[Len(turns')].question = "question"
             /\ turns'[Len(turns')].answer = Undefined
             /\ NumSpeechIn(tasks') = NumSpeechIn(tasks) + 1]_vars

C20_Witness ==
    /\ mounted
    /\ chatOutcome = "last"
    /\ status = "finished"
    /\ Len(turns) = 2
    /\ turns[2].feedback = "feedback"
    /\ turns[2].answer = "answer"
    /\ turns[1].feedback = "feedback"
    /\ Pending("tts") = {}

\* user, model, user, model, ... from the 'Start the interview.' message on
Alternates(history) ==
    /\ history # <<>> => history[1] = StartMessage
    /\ \A i \in 1..Len(history) :
          history[i].role = (IF i % 2 = 1 THEN "user" ELSE "model")

\* C21: the conversation history alternates user, model, ... starting with
\* the 'Start the interview.' message, in the ref (even length, ending with a
\* model entry) and in every chat request sent for an answer; and each
\* successful answer submission extends the history in the ref by exactly
\* one user entry followed by one model entry.
C21_HistoryAlternates ==
    /\ [](mounted =>
            /\ Alternates(conversationHistoryRef)
            /\ Len(conversationHistoryRef) % 2 = 0
            /\ \A t \in Pending("chat") : Alternates(t.data))
    /\ [][(SubmitSettled("next") \/ SubmitSettled("last")) =>
            LET n == Len(conversationHistoryRef)
            IN /\ Len(conversationHistoryRef') = n + 2
               /\ SubSeq(conversationHistoryRef', 1, n) = conversationHistoryRef
               /\ conversationHistoryRef'[n + 1].role = "user"
               /\ conversationHistoryRef'[n + 2].role = "model"]_vars

\* C22: a cancelled interview never later produces a feedback screen or
\* alters the App's state.  No feedback request is in flight when the
\* interview is cancelled or while no screen is rendered; what is still in
\* flight from a closed screen leaves the App's state alone when it settles;
\* the step to 'feedback' is taken only from a rendered screen that is
\* generating its report; and while the feedback request is in flight the
\* interview is not cancelled and no second feedback request is issued.
C22_CancelledStaysCancelled ==
    /\ [](~mounted => FeedbackTasks(tasks) = {})
    /\ [][(interviewState = "in-progress" /\ interviewState' = "welcome") =>
             /\ FeedbackTasks(tasks) = {}
             /\ FeedbackTasks(tasks') = {}
             /\ ~mounted']_vars
    /\ [][(~mounted /\ tasks' # tasks) => appVars' = appVars]_vars
    /\ [][(interviewState # "feedback" /\ interviewState' = "feedback") =>
             mounted /\ isGeneratingFeedback]_vars
    /\ [][isGeneratingFeedback =>
             /\ interviewState' # "welcome"
             /\ CountOf(FeedbackTasks(tasks'), tasks') <= 1]_vars

C22_Witness ==
    /\ ~mounted
    /\ interviewState = "welcome"
    /\ selectedLanguage = Null
    /\ recState = "active"
    /\ liveStreams # {}
    /\ feedback = NullFeedback

\* the position in msgs of the k-th message spoken by the AI
AiPosition(msgs, k) ==
    CHOOSE p \in 1..Len(msgs) :
        /\ msgs[p].speaker = "ai"
        /\ Cardinality({j \in 1..p : msgs[j].speaker = "ai"}) = k

\* msgs lists the turns ts in order: per turn its question as an 'ai'
\* message, followed by its answer as a 'user' message iff it has one
ListsTurns(msgs, ts) ==
    /\ Cardinality({j \in 1..Len(msgs) : msgs[j].speaker = "ai"}) = Len(ts)
    /\ \A j \in 1..Len(msgs) : msgs[j].speaker \in {"ai", "user"}
    /\ msgs # <<>> => msgs[1].speaker = "ai"
    /\ \A j \in 1..(Len(msgs) - 1) :
          ~(msgs[j].speaker = "user" /\ msgs[j + 1].speaker = "user")
    /\ \A k \in 1..Len(ts) :
          LET p == AiPosition(msgs, k)
              answered == ts[k].answer \notin {Undefined, ""}
          IN /\ msgs[p] = Message(ts[k].id, "ai", ts[k].question)
             /\ answered =>
                   /\ p < Len(msgs)
                   /\ msgs[p + 1] = Message(ts[k].id + 1, "user", ts[k].answer)
             /\ ~answered => (p = Len(msgs) \/ msgs[p + 1].speaker = "ai")

\* C23: the transcript handleEndInterview builds lists the turns in their
\* order, each turn giving its question as an 'ai' message followed, only if
\* it has an answer, by the answer as a 'user' message; it starts with an
\* 'ai' message and has no two consecutive 'user' messages.
C23_TranscriptListsTurns ==
    [][(~isGeneratingFeedback /\ isGeneratingFeedback') =>
          \A t \in FeedbackTasks(tasks') : ListsTurns(t.data, turns)]_vars

C23_Witness ==
    /\ isGeneratingFeedback
    /\ \E t \in FeedbackTasks(tasks) :
          /\ Len(t.data) = 3
          /\ t.data[2].speaker = "user"
          /\ t.data[3].speaker = "ai"
          /\ t.data[3].text = "question"

NumStartsIn(bag) ==
    CountOf({t \in BagToSet(bag) : t.k = "chat" /\ t.caller = "start"}, bag)

\* C24: if the first AI call of the interview (or the parsing of its
\* response) fails, the status becomes 'finished', no turn is created, the
\* conversation history stays empty and no speech is started; and the screen
\* stays so: without a turn, once the first call is over, the status is
\* 'finished', the history is empty and no speech or submission is under way.
C24_FailedStartFinishes ==
    /\ [][(SameScreen /\ NumStartsIn(tasks') < NumStartsIn(tasks)
                      /\ chatOutcome' = "fail") =>
             /\ status' = "finished"
             /\ turns' = <<>>
             /\ conversationHistoryRef' = <<>>
             /\ NumSpeechIn(tasks') = 0
             /\ Pending("playing")' = {}]_vars
    /\ [](( /\ mounted /\ ~mountEffectsDue
            /\ NumStartsIn(tasks) = 0 /\ turns = <<>>) =>
             /\ status = "finished"
             /\ chatOutcome = "fail"
             /\ conversationHistoryRef = <<>>
             /\ NumSpeechIn(tasks) = 0
             /\ NumSubmitsIn(tasks) = 0)

C24_Witness ==
    /\ mounted
    /\ ~mountEffectsDue
    /\ chatOutcome = "fail"
    /\ status = "finished"
    /\ turns = <<>>
    /\ conversationHistoryRef = <<>>
    /\ tasks = EmptyBag
    /\ ~isGeneratingFeedback

\* InterviewScreen.tsx line 111: the name of the selected language
LanguageName(code) == IF code = "en-US" THEN "English" ELSE "English"

\* constants.ts, getSystemPrompt: the text is built from these three values
getSystemPrompt(language, role, level) ==
    [language |-> language, role |-> role, level |-> level]

\* the config of the chat request each caller sends: startInterview (lines
\* 225-229) and handleAnswerSubmit (lines 262-265).  systemInstruction is
\* the set of the values the property holds: empty when it is absent.
ChatConfig(caller) ==
    IF caller = "start"
    THEN [systemInstruction |->
              {getSystemPrompt(LanguageName(selectedLanguage), selectedRole,
                               selectedLevel)},
          responseMimeType |-> "application/json",
          responseSchema |-> "TURN_RESPONSE_SCHEMA"]
    ELSE [systemInstruction |-> {},
          responseMimeType |-> "application/json",
          responseSchema |-> "TURN_RESPONSE_SCHEMA"]

\* C25: every chat request of the interview dialogue, the initial one and
\* each answer submission, carries the system instruction built from the
\* selected language, role and level.
C25_ChatCarriesSystemInstruction ==
    mounted =>
       \A t \in Pending("chat") :
          ChatConfig(t.caller).systemInstruction =
             {getSystemPrompt("English", selectedRole, selectedLevel)}

\* C26: a report is saved at most once per feedback screen, and a failed
\* save changes nothing: once the report is marked as saved the stored item
\* no longer changes and the mark stays; the stored item changes only in a
\* save that marks the report as saved, which adds one report; and a save
\* that fails (reading, parsing or writing throws) leaves the stored item
\* as it was and the report not marked as saved.
C26_SavedOnceOrNotAtAll ==
    [][/\ isSaved => (storage' = storage /\ isSaved')
       /\ storage' # storage =>
             /\ ~isSaved /\ isSaved'
             /\ Len(StoredList(storage')) = Len(StoredList(storage)) + 1
       /\ (~isSaved /\ ~isSaved') => storage' = storage
       /\ (~isSaved /\ isSaved') => storage' # storage]_vars

C26_Witness ==
    /\ interviewState = "feedback"
    /\ ~isSaved
    /\ clock > 0
    /\ storage = JsonObject
====
